---- MODULE Spec2Model ----
(***************************************************************************)
(* GetDummies: a one-hot encoder wrapping pandas.get_dummies behind the    *)
(* scikit-learn fit / transform interface                                  *)
(* (fast-one-hot-encoder.ipynb, cell "Implemention").                      *)
(*                                                                         *)
(* A DataFrame is a record [n |-> number of rows, cols |-> sequence of     *)
(* columns]; a column is [name, dtype, vals] with vals a sequence of n     *)
(* cells.  int64 cells are integers, object cells are strings, indicator   *)
(* cells (dtype uint8) are 0 or 1.                                         *)
(*                                                                         *)
(* The state is the encoder's three attributes and the last call made on  *)
(* it: op, its argument arg and what it gave (ret).                        *)
(***************************************************************************)
EXTENDS Integers, Sequences, FiniteSets, TLC

VARIABLES dtypes, input_columns, final_columns, op, arg, ret

vars == <<dtypes, input_columns, final_columns, op, arg, ret>>

\* Python values that the encoder's fields and results hold: None, a list,
\* a pandas Index, a tuple.  Each carries its type.
None == [py |-> "None"]
List(s) == [py |-> "list", items |-> s]
Index(s) == [py |-> "Index", items |-> s]
Tuple(s) == [py |-> "tuple", items |-> s]

\* ------------------------------------------------------------------------
\* Bounds and input universe
\* ------------------------------------------------------------------------

\* Largest number of rows of an enumerated table.
MaxRows == 1

\* Column names of the enumerated tables: "bar_5" is both a plain column
\* name and the name of the indicator of value 5 (or "5") of column "bar".
NamePool == {"bar", "bar_5"}

\* Column dtypes of the enumerated tables.
ColDtypes == {"int64", "object"}

\* Cell values of an enumerated column, by dtype.
IntPool == {5}
StrPool == {"5", "5_5"}

Pool(d) == IF d = "int64" THEN IntPool ELSE StrPool

\* ------------------------------------------------------------------------
\* DataFrame primitives (pandas, as the encoder calls them)
\* ------------------------------------------------------------------------

\* str(level) as get_dummies uses it to build a column name.
Digits == <<"0", "1", "2", "3", "4", "5", "6", "7", "8", "9">>

Str(v, d) == IF d = "int64" THEN Digits[v + 1] ELSE v

\* The strings of the model in lexicographic order (Python's str ordering).
StrOrder ==
    <<"5", "5_5", "a", "b", "c", "d", "e", "hi", "there", "whoa">>

SortKey(v, d) ==
    IF d = "int64" THEN v
    ELSE CHOOSE i \in 1..Len(StrOrder) : StrOrder[i] = v

Range(s) == {s[i] : i \in 1..Len(s)}

\* X.columns as a sequence of names.
Columns(X) == [i \in 1..Len(X.cols) |-> X.cols[i].name]

\* The subsequence of s whose elements satisfy Keep.
RECURSIVE SelectSeqBy(_, _)
SelectSeqBy(s, keep) ==
    IF s = <<>> THEN <<>>
    ELSE (IF Head(s) \in keep THEN <<Head(s)>> ELSE <<>>)
         \o SelectSeqBy(Tail(s), keep)

\* Mutant of select_dtypes: the columns whose dtype is none of include.
select_dtypes_Exclude(X, include) ==
    Columns([X EXCEPT !.cols =
        SelectSeqBy(X.cols, {c \in Range(X.cols) : c.dtype \notin Range(include)})])

\* X.select_dtypes(include).columns: the names of the columns whose dtype
\* is one of include, in X's column order.
select_dtypes(X, include) ==
    Columns([X EXCEPT !.cols =
        SelectSeqBy(X.cols, {c \in Range(X.cols) : c.dtype \in Range(include)})])

\* The distinct values of a column, sorted (the categories get_dummies
\* factorizes the column into).
RECURSIVE SortedLevels(_, _)
SortedLevels(S, d) ==
    IF S = {} THEN <<>>
    ELSE LET m == CHOOSE x \in S :
                     \A y \in S : SortKey(x, d) <= SortKey(y, d)
         IN <<m>> \o SortedLevels(S \ {m}, d)

\* _get_dummies_1d: one indicator column per level of column c, named
\* <c.name>_<level>, holding 1 in the rows whose value is the level.
get_dummies_1d(c) ==
    LET levels == SortedLevels(Range(c.vals), c.dtype)
    IN [k \in 1..Len(levels) |->
           [name  |-> c.name \o "_" \o Str(levels[k], c.dtype),
            dtype |-> "uint8",
            vals  |-> [i \in 1..Len(c.vals) |->
                          IF c.vals[i] = levels[k] THEN 1 ELSE 0]]]

\* The column of X named nm (names of an input table are distinct).
ColumnOf(X, nm) ==
    X.cols[CHOOSE i \in 1..Len(X.cols) : X.cols[i].name = nm]

RECURSIVE ConcatDummies(_, _)
ConcatDummies(X, names) ==
    IF names = <<>> THEN <<>>
    ELSE get_dummies_1d(ColumnOf(X, Head(names)))
         \o ConcatDummies(X, Tail(names))

Ok(X) == [kind |-> "ok", table |-> X]
Raise(e) == [kind |-> "error", exc |-> e]

\* pd.get_dummies(X, columns=columns), columns being None or a list: the
\* columns not named come first,
\* unchanged and in X's order, then the indicators of each named column in
\* the order of `columns`.  columns=None encodes the object and category
\* columns.  A named column X lacks is a KeyError; a frame with nothing to
\* concatenate (X has no column at all) is a ValueError.
get_dummies(X, columns) ==
    LET enc == IF columns = None
               THEN select_dtypes(X, <<"object", "category">>)
               ELSE columns.items
    IN IF ~(Range(enc) \subseteq Range(Columns(X))) THEN Raise("KeyError")
       ELSE IF Len(X.cols) = 0 THEN Raise("ValueError")
       ELSE Ok([n    |-> X.n,
                cols |-> SelectSeqBy(X.cols,
                             {c \in Range(X.cols) : c.name \notin Range(enc)})
                         \o ConcatDummies(X, enc)])

\* Mutant of SetZero: the new column is filled with 1.
SetZero_FillsOne(X, c) ==
    [X EXCEPT !.cols = Append(@,
        [name |-> c, dtype |-> "int64", vals |-> [i \in 1..X.n |-> 1]])]

\* X[c] = 0 for a name c that X lacks: a new last column of zeros.
SetZero(X, c) ==
    [X EXCEPT !.cols = Append(@,
        [name |-> c, dtype |-> "int64", vals |-> [i \in 1..X.n |-> 0]])]

\* for c in missing: X[c] = 0, visiting the set in the given order.
RECURSIVE ZeroFill(_, _)
ZeroFill(X, order) ==
    IF order = <<>> THEN X
    ELSE ZeroFill(SetZero(X, Head(order)), Tail(order))

\* X[labels]: for each label in turn, every column of X with that name.
RECURSIVE SelectColumns(_, _)
SelectColumns(X, labels) ==
    IF labels = <<>> THEN <<>>
    ELSE SelectSeqBy(X.cols, {c \in Range(X.cols) : c.name = Head(labels)})
         \o SelectColumns(X, Tail(labels))

\* Mutant of getitem: the columns named by labels, in the frame's order.
getitem_FrameOrder(X, labels) ==
    IF ~(Range(labels) \subseteq Range(Columns(X))) THEN Raise("KeyError")
    ELSE Ok([n    |-> X.n,
             cols |-> SelectSeqBy(X.cols,
                          {c \in Range(X.cols) : c.name \in Range(labels)})])

\* Mutant of getitem: no selection, the whole frame is returned.
getitem_WholeFrame(X, labels) == Ok(X)

getitem(X, labels) ==
    IF ~(Range(labels) \subseteq Range(Columns(X))) THEN Raise("KeyError")
    ELSE Ok([n |-> X.n, cols |-> SelectColumns(X, labels)])

\* ------------------------------------------------------------------------
\* class GetDummies
\* ------------------------------------------------------------------------

\* The encoder object: its three attributes.
Self(d, ic, fc) == [dtypes |-> d, input_columns |-> ic, final_columns |-> fc]

\* __init__(dtypes=None)
init(d) ==
    Self(IF d = None THEN List(<<"object", "category">>) ELSE d, None, None)

\* Mutant of fit: the new column names are added to those already recorded.
fit_Accumulates(self, X) ==
    LET ic == List(select_dtypes(X, self.dtypes.items))
        r  == get_dummies(X, ic)
    IN IF r.kind = "error"
       THEN [self |-> [self EXCEPT !.input_columns = ic], ret |-> r]
       ELSE [self |-> [self EXCEPT
                 !.input_columns = ic,
                 !.final_columns =
                     Index((IF self.final_columns = None THEN <<>>
                            ELSE self.final_columns.items)
                           \o Columns(r.table))],
             ret  |-> [kind |-> "self"]]

\* fit(X): input_columns is assigned before get_dummies runs, final_columns
\* after it returned.  The result is the encoder after the call and what the
\* call gave: self, or the exception get_dummies raised.
fit(self, X) ==
    LET ic == List(select_dtypes(X, self.dtypes.items))
        r  == get_dummies(X, ic)
    IN IF r.kind = "error"
       THEN [self |-> [self EXCEPT !.input_columns = ic], ret |-> r]
       ELSE [self |-> [self EXCEPT !.input_columns = ic,
                                   !.final_columns = Index(Columns(r.table))],
             ret  |-> [kind |-> "self"]]

\* Mutant of Expanded: the columns to encode are derived again from the
\* dtypes of X (columns=None).
Expanded_ByDtype(self, X) == get_dummies(X, None)

\* The frame transform gets from get_dummies.
Expanded(self, X) ==
    get_dummies(X, self.input_columns)

\* missing = set(self.final_columns) - set(X_columns)
Missing(self, X) ==
    LET r == Expanded(self, X)
    IN IF r.kind = "error" \/ self.final_columns = None THEN {}
       ELSE Range(self.final_columns.items) \ Range(Columns(r.table))

\* Mutant of transform: the loop runs over every name of final_columns, so
\* that the columns get_dummies produced are overwritten with 0 as well.
transform_ZeroFillsAll(self, X, order) ==
    LET r == Expanded(self, X)
    IN IF r.kind = "error" THEN r
       ELSE IF self.final_columns = None THEN Raise("TypeError")
       ELSE LET t == ZeroFill(r.table, order)
                z == [t EXCEPT !.cols =
                        [i \in 1..Len(t.cols) |->
                            [name  |-> t.cols[i].name,
                             dtype |-> "int64",
                             vals  |-> [j \in 1..t.n |-> 0]]]]
            IN getitem(z, self.final_columns.items)

\* transform(X), the set `missing` being iterated in the given order.
\* set(None) is a TypeError.
transform(self, X, order) ==
    LET r == Expanded(self, X)
    IN IF r.kind = "error" THEN r
       ELSE IF self.final_columns = None THEN Raise("TypeError")
       ELSE getitem(ZeroFill(r.table, order), self.final_columns.items)

\* Mutant of get_feature_names: an unfit encoder has no feature names, ().
get_feature_names_EmptyWhenUnfit(self) ==
    [kind |-> "value",
     value |-> Tuple(IF self.final_columns = None THEN <<>>
                     ELSE self.final_columns.items)]

\* Mutant of get_feature_names: the names of the encoded input columns.
get_feature_names_InputColumns(self) ==
    IF self.final_columns = None THEN Raise("TypeError")
    ELSE [kind |-> "value", value |-> Tuple(self.input_columns.items)]

\* get_feature_names(): tuple(None) is a TypeError.
get_feature_names(self) ==
    IF self.final_columns = None THEN Raise("TypeError")
    ELSE [kind |-> "value", value |-> Tuple(self.final_columns.items)]

\* Mutant of fit_transform: the frame fit computed is returned as it is.
fit_transform_FitFrame(self, X, order) ==
    LET f == fit(self, X)
    IN IF f.ret.kind = "error" THEN f
       ELSE [self |-> f.self, ret |-> get_dummies(X, f.self.input_columns)]

\* TransformerMixin.fit_transform(X): self.fit(X).transform(X).
fit_transform(self, X, order) ==
    LET f == fit(self, X)
    IN IF f.ret.kind = "error" THEN f
       ELSE [self |-> f.self, ret |-> transform(f.self, X, order)]

\* ------------------------------------------------------------------------
\* Input tables
\* ------------------------------------------------------------------------

\* The columns of r rows over the pools.
ColumnsOfLen(r) ==
    UNION {{[name |-> nm, dtype |-> d, vals |-> vs] : vs \in [1..r -> Pool(d)]} :
           nm \in NamePool, d \in ColDtypes}

\* The tables of r rows whose column names are pairwise distinct.
TablesOfLen(r) ==
    {[n |-> r, cols |-> cs] :
        cs \in UNION {{s \in [1..k -> ColumnsOfLen(r)] :
                          \A i, j \in 1..k : s[i].name = s[j].name => i = j} :
                      k \in 0..Cardinality(NamePool)}}

\* The notebook's train and test frames.
df1 ==
    [n |-> 2, cols |-> <<
        [name |-> "foo",  dtype |-> "int64",  vals |-> <<1, 2>>],
        [name |-> "bar",  dtype |-> "object", vals |-> <<"a", "c">>],
        [name |-> "baz",  dtype |-> "object", vals |-> <<"b", "d">>],
        [name |-> "grok", dtype |-> "object", vals |-> <<"hi", "there">>] >>]

df2 ==
    [n |-> 3, cols |-> <<
        [name |-> "foo",  dtype |-> "int64",  vals |-> <<3, 4, 4>>],
        [name |-> "bar",  dtype |-> "object", vals |-> <<"a", "c", "c">>],
        [name |-> "baz",  dtype |-> "object", vals |-> <<"e", "b", "b">>],
        [name |-> "grok", dtype |-> "object", vals |-> <<"whoa", "whoa", "there">>],
        [name |-> "new",  dtype |-> "int64",  vals |-> <<0, 0, 0>>] >>]

\* Frames made of columns of the notebook's frames: df1[['foo', 'baz']],
\* df1[['baz']] and df2[['foo', 'baz', 'new']].
df1_foo_baz == getitem(df1, <<"foo", "baz">>).table
df1_baz == getitem(df1, <<"baz">>).table
df2_foo_baz_new == getitem(df2, <<"foo", "baz", "new">>).table

Tables ==
    UNION {TablesOfLen(r) : r \in 0..MaxRows}
    \cup {df1_foo_baz, df1_baz, df2_foo_baz_new}

\* The dtypes argument of the constructor.
DtypeArgs == {None, List(<<"int64">>)}

\* The sequences that list every element of the set S once: the orders in
\* which iterating a Python set can visit its elements.
RECURSIVE Iterations(_)
Iterations(S) ==
    IF S = {} THEN {<<>>}
    ELSE UNION {{<<x>> \o p : p \in Iterations(S \ {x})} : x \in S}

\* The orders in which the loop over the set `missing` can run: every
\* permutation of the set.
Orders(self, X) ==
    IF self.final_columns = None THEN {<<>>}
    ELSE Iterations(Missing(self, X))

\* ------------------------------------------------------------------------
\* State machine: one encoder and the calls made on it
\* ------------------------------------------------------------------------

self == Self(dtypes, input_columns, final_columns)

Init ==
    /\ \E d \in DtypeArgs :
          /\ dtypes = init(d).dtypes
          /\ input_columns = init(d).input_columns
          /\ final_columns = init(d).final_columns
    /\ op = "init"
    /\ arg = None
    /\ ret = None

Fit ==
    \E X \in Tables :
        LET f == fit(self, X)
        IN /\ input_columns' = f.self.input_columns
           /\ final_columns' = f.self.final_columns
           /\ op' = "fit"
           /\ arg' = X
           /\ ret' = f.ret
           /\ UNCHANGED dtypes

\* Mutant of Transform: transform records the columns to encode anew, from
\* the dtypes of its argument.
Transform_RecordsColumns ==
    \E X \in Tables :
        \E order \in Orders(self, X) :
           /\ op' = "transform"
           /\ arg' = X
           /\ ret' = transform(self, X, order)
           /\ input_columns' = List(select_dtypes(X, dtypes.items))
           /\ UNCHANGED <<dtypes, final_columns>>

Transform ==
    \E X \in Tables :
        \E order \in Orders(self, X) :
           /\ op' = "transform"
           /\ arg' = X
           /\ ret' = transform(self, X, order)
           /\ UNCHANGED <<dtypes, input_columns, final_columns>>

FitTransform ==
    \E X \in Tables :
        \E order \in Orders(fit(self, X).self, X) :
           LET f == fit_transform(self, X, order)
           IN /\ input_columns' = f.self.input_columns
              /\ final_columns' = f.self.final_columns
              /\ op' = "fit_transform"
              /\ arg' = X
              /\ ret' = f.ret
              /\ UNCHANGED dtypes

GetFeatureNames ==
    /\ op' = "get_feature_names"
    /\ arg' = None
    /\ ret' = get_feature_names(self)
    /\ UNCHANGED <<dtypes, input_columns, final_columns>>

Next == Fit \/ Transform \/ FitTransform \/ GetFeatureNames

Spec == Init /\ [][Next]_vars

\* ------------------------------------------------------------------------
\* Properties
\* ------------------------------------------------------------------------

\* The last call was transform (alone or as the second half of
\* fit_transform) and it returned a table.
TransformReturned ==
    /\ op \in {"transform", "fit_transform"}
    /\ ret.kind = "ok"

NoDuplicates(s) == \A i, j \in 1..Len(s) : s[i] = s[j] => i = j

\* The columns of table X named nm.
Named(X, nm) == {c \in Range(X.cols) : c.name = nm}

\* X_columns of the last transform: the names get_dummies produced from its
\* argument (transform leaves the encoder as it found it).
Produced == Range(Columns(Expanded(self, arg).table))

\* C1: whenever transform returns, the column sequence of the returned table
\* is exactly output_columns (final_columns): same names, order and number.
C1_OutputColumnsExact ==
    TransformReturned => Columns(ret.table) = final_columns.items

\* C2: in a table returned by transform, every column named like an
\* indicator c_v that fit recorded (c an encoded column of the fitted
\* table, v one of its values there) holds 1 in the rows whose value of c
\* in the input is v and 0 in the others.  Values are compared as
\* get_dummies names them, by their string form.
C2_IndicatorValues ==
    [][(/\ op = "fit" /\ ret.kind = "self"
        /\ op' = "transform" /\ ret'.kind = "ok")
       => \A c \in Range(arg.cols) :
             c.name \in Range(input_columns.items) =>
                \A v \in Range(c.vals) :
                   LET x == ColumnOf(arg', c.name)
                   IN \A o \in Named(ret'.table,
                                     c.name \o "_" \o Str(v, c.dtype)) :
                         \A i \in 1..arg'.n :
                            o.vals[i] =
                               IF Str(x.vals[i], x.dtype) = Str(v, c.dtype)
                               THEN 1 ELSE 0]_vars

\* C3: every name of output_columns that get_dummies did not produce from
\* the input is, in the returned table, a column of zeros with as many rows
\* as the input.
C3_MissingZeroFilled ==
    TransformReturned =>
        \A nm \in Range(final_columns.items) \ Produced :
            /\ Named(ret.table, nm) # {}
            /\ \A c \in Named(ret.table, nm) :
                  /\ Len(c.vals) = arg.n
                  /\ \A i \in 1..Len(c.vals) : c.vals[i] = 0

\* After a fit that recorded the plain column bar and the indicator
\* bar_5_5 of column bar_5, a transform of a table with a row that lacks
\* bar and whose bar_5 holds another value: both names are zero-filled.
C3_Witness ==
    /\ op = "transform"
    /\ ret.kind = "ok"
    /\ arg.n > 0
    /\ final_columns = Index(<<"bar", "bar_5_5">>)
    /\ "bar" \notin Range(Columns(arg))
    /\ Range(final_columns.items) \ Produced = {"bar", "bar_5_5"}
    /\ \A c \in Range(ret.table.cols) : c.vals = <<0>>

\* C4: a produced column whose name is not in output_columns is not in the
\* returned table, and transform of a fitted encoder returns whenever
\* get_dummies did.
C4_UnseenDropped ==
    (/\ op \in {"transform", "fit_transform"}
     /\ final_columns # None
     /\ Expanded(self, arg).kind = "ok")
        => /\ ret.kind = "ok"
           /\ \A nm \in Produced \ Range(final_columns.items) :
                 Named(ret.table, nm) = {}

\* After a fit that saw only "5" in bar, a transform of a table whose bar
\* holds only "5_5": bar_5 is all zero and there is no bar_5_5.
C4_Witness ==
    /\ op = "transform"
    /\ ret.kind = "ok"
    /\ arg.n > 0
    /\ input_columns = List(<<"bar">>)
    /\ final_columns = Index(<<"bar_5">>)
    /\ "bar_5_5" \in Produced
    /\ Named(ret.table, "bar_5_5") = {}
    /\ \A c \in Named(ret.table, "bar_5") :
          \A i \in 1..Len(c.vals) : c.vals[i] = 0

\* C5: transform expands the recorded input_columns and no others: a
\* recorded column of the input is replaced by its indicators whatever its
\* dtype, and a column that was not recorded passes through as it is, also
\* when its dtype is object.
C5_ExpandsRecordedColumns ==
    (op = "transform" /\ ret.kind = "ok") =>
        \A c \in Range(arg.cols) :
            IF c.name \in Range(input_columns.items)
            THEN \A d \in Range(get_dummies_1d(c)) :
                    d.name \in Range(final_columns.items)
                        => d \in Range(ret.table.cols)
            ELSE c.name \in Range(final_columns.items)
                        => c \in Range(ret.table.cols)

\* A transform whose input holds a recorded column as int64, expanded into
\* an indicator of the output, and an object column that was not recorded,
\* passed through.
C5_Witness ==
    /\ op = "transform"
    /\ ret.kind = "ok"
    /\ \E c \in Range(arg.cols) :
          /\ c.dtype = "int64"
          /\ c.name \in Range(input_columns.items)
          /\ \E d \in Range(get_dummies_1d(c)) : d \in Range(ret.table.cols)
    /\ \E c \in Range(arg.cols) :
          /\ c.dtype = "object"
          /\ c.name \notin Range(input_columns.items)
          /\ c \in Range(ret.table.cols)

\* C6: on an encoder on which fit was never called, transform and
\* get_feature_names raise, and the encoder stays unfit.
C6_UnfitCallsFail ==
    [][(input_columns = None /\ op' \in {"transform", "get_feature_names"})
       => /\ final_columns = None
          /\ ret'.kind = "error"
          /\ input_columns' = None
          /\ final_columns' = None]_vars

\* transform on a table with columns raised on an unfit encoder.
C6_Witness ==
    /\ op = "transform"
    /\ arg.cols # <<>>
    /\ input_columns = None
    /\ final_columns = None
    /\ ret = Raise("TypeError")

\* C7: transform(T) right after fit(T) returns the frame fit computed from
\* T with get_dummies.
C7_TransformOfFittedTable ==
    [][(/\ op = "fit" /\ ret.kind = "self"
        /\ op' = "transform" /\ arg' = arg)
       => ret' = get_dummies(arg, input_columns)]_vars

\* C8: fit(T) followed by transform(T) gives the table and leaves the
\* encoder that fit_transform(T) gives and leaves; a fit(T) that raises
\* does as fit_transform(T).
C8_FitTransformIsFitThenTransform ==
    [][/\ (/\ op = "fit" /\ ret.kind = "self"
           /\ op' = "transform" /\ arg' = arg)
          => \A order \in Orders(self, arg) :
                [self |-> Self(dtypes', input_columns', final_columns'),
                 ret  |-> ret'] = fit_transform(self, arg, order)
       /\ (op' = "fit" /\ ret'.kind = "error")
          => [self |-> Self(dtypes', input_columns', final_columns'),
              ret  |-> ret'] = fit_transform(self, arg', <<>>)]_vars

\* A transform that returned, on the table the encoder was fitted on, what
\* fit_transform returns on it: a table with a row, an indicator and a
\* plain column.
C8_Witness ==
    /\ op = "transform"
    /\ ret.kind = "ok"
    /\ arg.n > 0
    /\ fit(self, arg).self = self
    /\ \A order \in Orders(self, arg) : ret = fit_transform(self, arg, order).ret
    /\ \E c \in Range(ret.table.cols) : c.dtype = "uint8"
    /\ \E c \in Range(ret.table.cols) : c \in Range(arg.cols)

\* C9: fit on a table none of whose columns has a selected dtype returns,
\* records no input column and records the table's own columns as
\* final_columns.
C9_NoCategoricalColumns ==
    (op = "fit" /\ select_dtypes(arg, dtypes.items) = <<>>)
        => /\ ret.kind = "self"
           /\ input_columns = List(<<>>)
           /\ final_columns = Index(Columns(arg))

\* C10: get_feature_names() right after a fit(T) that returned is the tuple
\* of the columns of the frame fit computed from T; whenever it returns it
\* is the tuple of final_columns, which no transform and no
\* get_feature_names call changes, so two calls in a row return the same.
C10_FeatureNames ==
    [][/\ (op = "fit" /\ ret.kind = "self" /\ op' = "get_feature_names")
          => ret' = [kind  |-> "value",
                     value |-> Tuple(Columns(
                                  get_dummies(arg, input_columns).table))]
       /\ (op' = "get_feature_names" /\ final_columns # None)
          => ret' = [kind  |-> "value",
                     value |-> Tuple(final_columns.items)]
       /\ op' \in {"transform", "get_feature_names"}
          => final_columns' = final_columns
       /\ (op = "get_feature_names" /\ op' = "get_feature_names")
          => ret' = ret]_vars

\* get_feature_names returned the names a fit on df1[['foo', 'baz']]
\* records.
C10_Witness ==
    /\ op = "get_feature_names"
    /\ ret = [kind  |-> "value",
              value |-> Tuple(<<"foo", "baz_b", "baz_d">>)]

\* What a newly constructed encoder with the same dtypes records when it is
\* fitted on T.
Fresh(T) == fit(Self(dtypes, None, None), T).self

\* C11: a fit that returns replaces input_columns and final_columns by what
\* a new encoder would record from its table alone, whatever was recorded
\* before; the transform and get_feature_names calls that follow give only
\* names of that table's expansion.
C11_RefitReplaces ==
    [][/\ (op' = "fit" /\ ret'.kind = "self")
          => Self(dtypes', input_columns', final_columns') = Fresh(arg')
       /\ (op = "fit" /\ ret.kind = "self"
           /\ op' = "transform" /\ ret'.kind = "ok")
          => Range(Columns(ret'.table))
                \subseteq Range(Fresh(arg).final_columns.items)
       /\ (op = "fit" /\ ret.kind = "self" /\ op' = "get_feature_names")
          => ret' = [kind  |-> "value",
                     value |-> Tuple(Fresh(arg).final_columns.items)]]_vars

\* The encoder holds what fit(df2[['foo', 'baz', 'new']]) records (the
\* state after a fit on a frame of df1 and then this fit, as after this fit
\* alone) and transform(df1[['foo', 'baz']]) returned a table without baz_d,
\* a name that only a fit on df1's baz produces.
C11_Witness ==
    /\ op = "transform"
    /\ arg = df1_foo_baz
    /\ ret.kind = "ok"
    /\ Self(dtypes, input_columns, final_columns) = Fresh(df2_foo_baz_new)
    /\ "baz_e" \in Range(Columns(ret.table))
    /\ "baz_d" \notin Range(Columns(ret.table))

\* C12: transform and get_feature_names, returning or raising, leave
\* dtypes, input_columns and final_columns as they were; fit leaves dtypes
\* as it was.
C12_OnlyFitChangesState ==
    [][/\ op' \in {"transform", "get_feature_names"}
          => /\ dtypes' = dtypes
             /\ input_columns' = input_columns
             /\ final_columns' = final_columns
       /\ dtypes' = dtypes]_vars

\* A transform that raised on a fitted encoder, which is still fitted.
C12_Witness ==
    /\ op = "transform"
    /\ ret.kind = "error"
    /\ input_columns = List(<<"baz">>)
    /\ final_columns = Fresh(df1_foo_baz).final_columns

\* C13: in the fitted state transform returns for a table that lacks a
\* categorical column recorded at fit time (no representation of a present
\* column is incompatible here: get_dummies expands a column of any dtype).
C13_MissingCategoricalAccepted ==
    (/\ op = "transform"
     /\ final_columns # None
     /\ final_columns.items # <<>>
     /\ arg.cols # <<>>
     /\ arg.n > 0
     /\ ~(Range(input_columns.items) \subseteq Range(Columns(arg))))
    => ret.kind = "ok"

\* C14: a table transform returns has as many rows as its argument, in
\* every column, and every column of the argument that is named in
\* final_columns and is not one of input_columns is a column of the returned
\* table, values unchanged row by row; it is the only column of that name
\* when the returned table has no name twice.
C14_RowsAndPassthrough ==
    TransformReturned =>
        /\ ret.table.n = arg.n
        /\ \A c \in Range(ret.table.cols) : Len(c.vals) = arg.n
        /\ \A c \in Range(arg.cols) :
              (/\ c.name \in Range(final_columns.items)
               /\ c.name \notin Range(input_columns.items))
              => /\ c \in Range(ret.table.cols)
                 /\ NoDuplicates(Columns(ret.table))
                    => Named(ret.table, c.name) = {c}

\* transform(df2[['foo', 'baz', 'new']]) after fit(df1[['foo', 'baz']])
\* returned three rows with foo as in df2.
C14_Witness ==
    /\ op = "transform"
    /\ arg = df2_foo_baz_new
    /\ ret.kind = "ok"
    /\ final_columns = Fresh(df1_foo_baz).final_columns
    /\ ret.table.n = 3
    /\ ret.table.cols[1] =
          [name |-> "foo", dtype |-> "int64", vals |-> <<3, 4, 4>>]

\* The names of the columns of T whose dtype is one of the encoder's dtypes.
Categorical(T) ==
    {c.name : c \in {x \in Range(T.cols) : x.dtype \in Range(dtypes.items)}}

\* The indicator names of T: <column>_<value> for every value of every
\* column of T whose dtype is one of the encoder's dtypes.
IndicatorNames(T) ==
    UNION {{c.name \o "_" \o Str(c.vals[i], c.dtype) : i \in 1..T.n} :
           c \in {x \in Range(T.cols) : x.dtype \in Range(dtypes.items)}}

\* C15: the dtypes are those given at construction, or object and category
\* when none were given; after a fit (alone or in fit_transform)
\* input_columns is the names of the columns of its table whose dtype is one
\* of them, in the table's column order, and, when the call returned,
\* final_columns is the columns of the expansion of exactly those columns:
\* the other columns' names in the table's order, then the indicator names.
C15_FitRecords ==
    /\ dtypes \in {List(<<"object", "category">>)} \cup (DtypeArgs \ {None})
    /\ op \in {"fit", "fit_transform"} =>
        LET T    == arg
            cat  == SelectSeqBy(Columns(T), Categorical(T))
            pass == SelectSeqBy(Columns(T), Range(Columns(T)) \ Categorical(T))
        IN /\ input_columns = List(cat)
           /\ ret.kind \in {"self", "ok"} =>
                LET fc == final_columns.items
                IN /\ final_columns =
                         Index(Columns(get_dummies(T, List(cat)).table))
                   /\ Len(fc) >= Len(pass)
                   /\ SubSeq(fc, 1, Len(pass)) = pass
                   /\ Range(SubSeq(fc, Len(pass) + 1, Len(fc)))
                         = IndicatorNames(T)

\* fit(df2[['foo', 'baz', 'new']]) with the default dtypes recorded baz,
\* and foo and new first in final_columns.
C15_Witness ==
    /\ op = "fit"
    /\ arg = df2_foo_baz_new
    /\ dtypes = List(<<"object", "category">>)
    /\ input_columns = List(<<"baz">>)
    /\ final_columns = Index(<<"foo", "new", "baz_b", "baz_e">>)

\* C17: what a transform call gave (a table, with its column sequence and
\* values, or an exception) is what transform gives for the encoder state
\* and the table under every order in which the set of missing names can be
\* iterated: the result is a function of the state, which transform leaves
\* as it is, and the table, so that two calls give equal results.
C17_TransformDeterministic ==
    op = "transform" =>
        \A order \in Orders(self, arg) : transform(self, arg, order) = ret

\* transform(df1[['baz']]) after fit(df2[['foo', 'baz', 'new']]) returned
\* after adding three missing columns, a set that can be iterated in six
\* orders.
C17_Witness ==
    /\ op = "transform"
    /\ ret.kind = "ok"
    /\ arg = df1_baz
    /\ self = Fresh(df2_foo_baz_new)
    /\ Missing(self, arg) = {"foo", "new", "baz_e"}
    /\ Cardinality(Orders(self, arg)) = 6
    /\ <<"new", "baz_e", "foo">> \in Orders(self, arg)
    /\ Columns(ret.table) = final_columns.items

\* C18: a fit that raises leaves input_columns and final_columns as they
\* were before the call.
C18_FitAtomicOnFailure ==
    [][(op' = "fit" /\ ret'.kind = "error")
       => /\ input_columns' = input_columns
          /\ final_columns' = final_columns]_vars

\* C19: after a fit that returned, on a table whose column names are
\* pairwise distinct, final_columns contains no name twice.
C19_FinalColumnsDistinct ==
    (/\ op = "fit"
     /\ ret.kind = "self"
     /\ NoDuplicates(Columns(arg)))
    => NoDuplicates(final_columns.items)

====
